---- MODULE Spec2Model ----
(***************************************************************************)
(* Model of the diagnostic flood/gather protocol of diagnostic/diag.go.    *)
(*                                                                         *)
(* Every node runs one Diagnostics object (its ledger diagMap guarded by   *)
(* diagLock).  A call of GetDiagnostic or handleDiagnostic is a frame in   *)
(* `calls`; a frame blocks in sendRequest until the frame that handles its *)
(* request at the peer has returned, or until the transport reports an     *)
(* error.  Byte strings are sequences of tokens.                           *)
(***************************************************************************)
EXTENDS Integers, Sequences, FiniteSets, TLC

(* ------------------------------ bounds --------------------------------- *)
NumNodes == 3
NumIds == 2
MaxRounds == 2
MaxFaults == 2

Node == 1..NumNodes
\* a frame is named by its place in the call tree: <<round>> is a
\* GetDiagnostic call, Append(c, i) the handler of the request that frame c
\* sent to the i-th peer of its node
NoCall == <<>>
NoTime == 0
\* mes.Peer() of an inbound message that names no sender
NoPeer == 0

VARIABLES
  peers,     \* peers[n]: the swarm's peer list of node n, in iteration order
  diagMap,   \* diagMap[n][r]: time node n recorded id r, NoTime if absent
  diagLock,  \* diagLock[n]: the frame holding n's mutex, NoCall if free
  calls,     \* the frames of all calls made so far
  nfaults,   \* transport faults injected so far
  rejected,  \* what HandleMessage returned for the last malformed message
  budget     \* the rounds and the faults a run explores at most

vars == <<peers, diagMap, diagLock, calls, nfaults, rejected, budget>>

\* the frames a run holds at most: per round the GetDiagnostic call and one
\* handler for every entry of a peer list
MaxCalls == budget.rounds * (1 + NumNodes * (NumNodes - 1))

(* ------------------------------ data ----------------------------------- *)
\* peer.ID.Pretty(): the printable identity of a node
Pretty(n) == "Qm" \o ToString(n)

\* the values newID can return (4 random bytes in the code)
Id == { "r" \o ToString(k) : k \in 1..NumIds }

\* tokens of the JSON text of a diagInfo, and a fragment that is no JSON
LBrace == "{"
RBrace == "}"
Garbage == "#"
Punct == {LBrace, RBrace, Garbage}

RECURSIVE SortedSeq(_)
SortedSeq(S) ==
  IF S = {} THEN <<>>
  ELSE LET m == CHOOSE x \in S : \A y \in S : x <= y
       IN <<m>> \o SortedSeq(S \ {m})

\* the peer graphs: connections are bidirectional, a node is no peer of itself
Edges == { e \in SUBSET Node : Cardinality(e) = 2 }
Graphs ==
  { [n \in Node |-> SortedSeq({ m \in Node : {n, m} \in E })] : E \in SUBSET Edges }

getPeers(n) == peers[n]

getDiagInfo(n) ==
  [ID |-> Pretty(n),
   Connections |-> [j \in 1..Len(getPeers(n)) |-> Pretty(getPeers(n)[j])]]

\* json.Marshal of a diagInfo: one self-delimiting object
Marshal(di) == <<LBrace, di.ID>> \o di.Connections \o <<RBrace>>

\* index of the first RBrace of s at or after position k, 0 if there is none
RECURSIVE FindClose(_, _)
FindClose(s, k) ==
  IF k > Len(s) THEN 0
  ELSE IF s[k] = RBrace THEN k
  ELSE FindClose(s, k + 1)

\* a decoder that fills in the ID and loses the Connections
Decode_NoConnections(s) ==
  IF s = <<>> THEN [err |-> "EOF"]
  ELSE LET e == FindClose(s, 1)
       IN IF s[1] = LBrace /\ e >= 3
          THEN [err |-> "nil", di |-> [ID |-> s[2], Connections |-> <<>>],
                rest |-> SubSeq(s, e + 1, Len(s))]
          ELSE [err |-> "syntax"]

\* json.Decoder.Decode: one object off the front of the stream
Decode(s) ==
  IF s = <<>> THEN [err |-> "EOF"]
  ELSE LET e == FindClose(s, 1)
       IN IF /\ s[1] = LBrace
             /\ e >= 3
             /\ \A k \in 2..(e - 1) : s[k] \notin Punct
          THEN [err |-> "nil",
                di |-> [ID |-> s[2], Connections |-> SubSeq(s, 3, e - 1)],
                rest |-> SubSeq(s, e + 1, Len(s))]
          ELSE [err |-> "syntax"]

\* a decode loop that steps over a fragment it cannot decode
RECURSIVE DecodeAll_Resync(_)
DecodeAll_Resync(s) ==
  LET d == Decode(s)
  IN IF d.err = "nil" THEN <<d.di>> \o DecodeAll_Resync(d.rest)
     ELSE IF d.err = "EOF" THEN <<>>
     ELSE DecodeAll_Resync(Tail(s))

\* the decode loop of GetDiagnostic: objects until the first error or EOF
RECURSIVE DecodeAll(_)
DecodeAll(s) ==
  LET d == Decode(s)
  IN IF d.err = "nil" THEN <<d.di>> \o DecodeAll(d.rest) ELSE <<>>

\* a message that carries some id, not the one asked for
newMessage_OtherId(diagID) ==
  [DiagID |-> CHOOSE r \in Id : r # diagID, Data |-> <<>>]

newMessage(diagID) == [DiagID |-> diagID, Data |-> <<>>]

\* the protobuf encoding of a Message, and proto.Unmarshal
ProtoMarshal(m) == <<m.DiagID>> \o m.Data
ProtoUnmarshal(w) ==
  IF Len(w) >= 1 /\ w[1] \in Id
  THEN [err |-> "nil", msg |-> [DiagID |-> w[1], Data |-> Tail(w)]]
  ELSE [err |-> "proto"]

\* time.Now() at node n: later than every time n has recorded
Now(n) ==
  LET T == { diagMap[n][r] : r \in Id }
  IN 1 + (CHOOSE t \in T : \A u \in T : u <= t)

\* an inbound msg.NetMessage: Data() may be nil, Peer() may be nil
NetMessage(hasData, data, peer) == [hasData |-> hasData, Data |-> data, Peer |-> peer]

\* the inbound messages that lack a payload or a sender
Malformed ==
  { m \in [hasData : BOOLEAN,
           Data : {<<>>, <<Garbage>>} \cup { ProtoMarshal(newMessage(r)) : r \in Id },
           Peer : {NoPeer} \cup Node] :
      /\ ~m.hasData \/ m.Peer = NoPeer
      /\ ~m.hasData => m.Data = <<>> }

\* checks of HandleMessage that pass a message without a sender
HandleMessage_err_NoPeerCheck(mes) ==
  IF ~mes.hasData THEN "message did not include Data"
  ELSE IF ProtoUnmarshal(mes.Data).err # "nil" THEN "Failed to decode protobuf message"
  ELSE "nil"

\* the checks HandleMessage makes before it dispatches
HandleMessage_err(mes) ==
  IF ~mes.hasData THEN "message did not include Data"
  ELSE IF mes.Peer = NoPeer THEN "message did not include a Peer"
  ELSE IF ProtoUnmarshal(mes.Data).err # "nil" THEN "Failed to decode protobuf message"
  ELSE "nil"

\* no message has been rejected yet
NoReject == [node |-> NoPeer, err |-> "nil", replied |-> FALSE, at |-> 0]

(* ------------------------------ frames --------------------------------- *)
Frame(kind, n, pmes) ==
  [kind |-> kind, node |-> n, diagID |-> pmes.DiagID, pmes |-> pmes,
   resp |-> newMessage(pmes.DiagID), pc |-> "lock", found |-> FALSE,
   i |-> 1, buf |-> <<>>, out |-> <<>>, err |-> "nil", snaps |-> 0,
   sent |-> 0, rcv |-> <<>>, expired |-> FALSE]

Root(c) == <<c[1]>>
Parent(c) == SubSeq(c, 1, Len(c) - 1)

Calls == DOMAIN calls
Gets == { c \in Calls : calls[c].kind = "get" }
Handles == { c \in Calls : calls[c].kind = "handle" }

\* The exploration injects transport faults into runs of a single round and
\* lets rounds overlap in runs without faults.
MayFault == nfaults < budget.faults /\ Cardinality(Gets) = 1
MayStart == Cardinality(Gets) < budget.rounds /\ (nfaults = 0 \/ Gets = {})
MayReject == nfaults < budget.faults /\ Cardinality(Gets) <= 1

\* a lookup that misses every entry
Found_Never(n, diagID) == FALSE

\* a lookup that takes any entry of the ledger for the id asked
Found_AnyId(n, diagID) == \E r \in Id : diagMap[n][r] # NoTime

\* the map lookup `_, found := d.diagMap[id]`
Found(n, diagID) == diagMap[n][diagID] # NoTime

\* a mutex that excludes nobody
CanLock_NoMutex(n) == TRUE

\* an Unlock that leaves the mutex held
Unlock_Held(n) == diagLock

\* sync.Mutex.Unlock
Unlock(n) == [diagLock EXCEPT ![n] = NoCall]

\* sync.Mutex.Lock returns only when no other frame holds the mutex
CanLock(n) == diagLock[n] = NoCall

\* the frame once its loop over the peers has ended
Finish(f) ==
  IF f.kind = "get"
  THEN [f EXCEPT !.pc = "done"]
  ELSE [f EXCEPT !.pc = "done", !.resp = [f.resp EXCEPT !.Data = f.buf]]

\* a loop that gives every peer a deadline of its own
NextPeer_FreshCtx(f) ==
  IF f.i + 1 > Len(getPeers(f.node))
  THEN Finish([f EXCEPT !.i = f.i + 1])
  ELSE [f EXCEPT !.i = f.i + 1, !.pc = "loop", !.expired = FALSE]

\* the loop goes on to the next peer, or ends
NextPeer(f) ==
  IF f.i + 1 > Len(getPeers(f.node))
  THEN Finish([f EXCEPT !.i = f.i + 1])
  ELSE [f EXCEPT !.i = f.i + 1, !.pc = "loop"]

\* an error of one peer ends the call with that error
OnPeerError_Abort(f, kind) ==
  [f EXCEPT !.rcv = Append(f.rcv, [kind |-> kind, data |-> <<>>]),
            !.err = kind, !.out = <<>>, !.pc = "done"]

\* an error of one peer ends the loop over the peers
OnPeerError_Break(f, kind) ==
  Finish([f EXCEPT !.rcv = Append(f.rcv, [kind |-> kind, data |-> <<>>])])

\* getDiagnosticFromPeer returned an error: log it and continue
OnPeerError(f, kind) ==
  NextPeer([f EXCEPT !.rcv = Append(f.rcv, [kind |-> kind, data |-> <<>>])])

\* the payload of a reply is read and thrown away
OnPeerData_Drop(f, data) ==
  NextPeer([f EXCEPT !.rcv = Append(f.rcv, [kind |-> "ok", data |-> data])])

\* the payload of a reply is put in front of what was gathered so far
OnPeerData_Prepend(f, data) ==
  LET g == [f EXCEPT !.rcv = Append(f.rcv, [kind |-> "ok", data |-> data])]
  IN IF f.kind = "get"
     THEN NextPeer([g EXCEPT !.out = DecodeAll(data) \o f.out])
     ELSE NextPeer([g EXCEPT !.buf = data \o f.buf])

\* getDiagnosticFromPeer returned the payload of a reply
OnPeerData(f, data) ==
  LET g == [f EXCEPT !.rcv = Append(f.rcv, [kind |-> "ok", data |-> data])]
  IN IF f.kind = "get"
     THEN NextPeer([g EXCEPT !.out = f.out \o DecodeAll(data)])
     ELSE NextPeer([g EXCEPT !.buf = f.buf \o data])

(* ------------------------------ actions -------------------------------- *)
Init ==
  /\ peers \in Graphs
  /\ diagMap = [n \in Node |-> [r \in Id |-> NoTime]]
  /\ diagLock = [n \in Node |-> NoCall]
  /\ calls = [c \in {} |-> 0]
  /\ nfaults = 0
  /\ rejected = NoReject
  /\ budget = [rounds |-> MaxRounds, faults |-> MaxFaults]

\* a GetDiagnostic that leaves the id out of the ledger
GetDiagnostic_NoClaim(n, diagID) ==
  /\ MayStart
  /\ Cardinality(Calls) < MaxCalls
  /\ CanLock(n)
  /\ LET c == <<Cardinality(Gets) + 1>>
         f == [Frame("get", n, newMessage(diagID))
                 EXCEPT !.diagID = diagID, !.out = <<getDiagInfo(n)>>, !.snaps = 1, !.pc = "loop"]
     IN calls' = calls @@ (c :> IF getPeers(n) = <<>> THEN Finish(f) ELSE f)
  /\ UNCHANGED <<peers, diagMap, diagLock, nfaults, rejected, budget>>

\* GetDiagnostic up to its loop: the id, the ledger entry, the own snapshot
GetDiagnostic(n, diagID) ==
  /\ MayStart
  /\ Cardinality(Calls) < MaxCalls
  /\ CanLock(n)
  /\ diagMap' = [diagMap EXCEPT ![n][diagID] = Now(n)]
  /\ LET c == <<Cardinality(Gets) + 1>>
         f == [Frame("get", n, newMessage(diagID))
                 EXCEPT !.diagID = diagID, !.out = <<getDiagInfo(n)>>, !.snaps = 1, !.pc = "loop"]
     IN calls' = calls @@ (c :> IF getPeers(n) = <<>> THEN Finish(f) ELSE f)
  /\ UNCHANGED <<peers, diagLock, nfaults, rejected, budget>>

\* a loop that sends to the next peer without waiting for the reply
SendRequest_NoWait(c) ==
  LET f == calls[c]
      p == getPeers(f.node)[f.i]
      mes == NetMessage(TRUE, ProtoMarshal(f.pmes), f.node)
      in == ProtoUnmarshal(mes.Data)
  IN /\ f.pc = "loop"
     /\ ~f.expired
     /\ Cardinality(Calls) < MaxCalls
     /\ HandleMessage_err(mes) = "nil"
     /\ calls' = [calls EXCEPT ![c] = NextPeer([f EXCEPT !.sent = f.sent + 1])]
                  @@ (Append(c, f.i) :> Frame("handle", p, in.msg))
     /\ UNCHANGED <<peers, diagMap, diagLock, nfaults, rejected, budget>>

\* a sender that also honours the deadline of the round's originator
SendRequest_RootCtx(c) ==
  LET f == calls[c]
      p == getPeers(f.node)[f.i]
      mes == NetMessage(TRUE, ProtoMarshal(f.pmes), f.node)
      in == ProtoUnmarshal(mes.Data)
  IN /\ f.pc = "loop"
     /\ ~f.expired
     /\ ~calls[Root(c)].expired
     /\ Cardinality(Calls) < MaxCalls
     /\ HandleMessage_err(mes) = "nil"
     /\ calls' = [calls EXCEPT ![c].pc = "wait", ![c].sent = f.sent + 1]
                  @@ (Append(c, f.i) :> Frame("handle", p, in.msg))
     /\ UNCHANGED <<peers, diagMap, diagLock, nfaults, rejected, budget>>

\* sendRequest hands the request to the sender, which delivers it; the
\* peer's HandleMessage decodes it and dispatches handleDiagnostic
SendRequest(c) ==
  LET f == calls[c]
      p == getPeers(f.node)[f.i]
      mes == NetMessage(TRUE, ProtoMarshal(f.pmes), f.node)
      in == ProtoUnmarshal(mes.Data)
  IN /\ f.pc = "loop"
     /\ ~f.expired
     /\ Cardinality(Calls) < MaxCalls
     /\ HandleMessage_err(mes) = "nil"
     /\ calls' = [calls EXCEPT ![c].pc = "wait", ![c].sent = f.sent + 1]
                  @@ (Append(c, f.i) :> Frame("handle", p, in.msg))
     /\ UNCHANGED <<peers, diagMap, diagLock, nfaults, rejected, budget>>

\* the sender fails before the request leaves: a transport error, or the
\* context of the calling frame is already done
SendError(c) ==
  LET f == calls[c]
  IN /\ f.pc = "loop"
     /\ f.expired \/ MayFault
     /\ calls' = [calls EXCEPT ![c] = OnPeerError([f EXCEPT !.sent = f.sent + 1],
                                                  IF f.expired THEN "timeout" ELSE "transport")]
     /\ nfaults' = IF f.expired THEN nfaults ELSE nfaults + 1
     /\ UNCHANGED <<peers, diagMap, diagLock, rejected, budget>>

\* handleDiagnostic takes the mutex and looks the id up
HandleLock(c) ==
  LET f == calls[c]
  IN /\ f.pc = "lock"
     /\ CanLock(f.node)
     /\ diagLock' = [diagLock EXCEPT ![f.node] = c]
     /\ calls' = [calls EXCEPT ![c].pc = "check",
                               ![c].found = Found(f.node, f.pmes.DiagID)]
     /\ UNCHANGED <<peers, diagMap, nfaults, rejected, budget>>

\* a duplicate is answered with the node's own snapshot
DupData_SelfOnly(n) == Marshal(getDiagInfo(n))

\* payload of the reply to a request whose id is already in the ledger
DupData(n) == <<>>

\* a handleDiagnostic whose ledger holds the newest id only
HandleClaim_Evict(c) ==
  LET f == calls[c]
      n == f.node
  IN /\ f.pc = "check"
     /\ diagLock' = Unlock(n)
     /\ IF f.found
        THEN /\ calls' = [calls EXCEPT ![c].pc = "done",
                                       ![c].resp = [f.resp EXCEPT !.Data = DupData(n)]]
             /\ UNCHANGED diagMap
        ELSE /\ diagMap' = [diagMap EXCEPT ![n] =
                              [r \in Id |-> IF r = f.pmes.DiagID THEN Now(n) ELSE NoTime]]
             /\ LET g == [f EXCEPT !.buf = Marshal(getDiagInfo(n)), !.snaps = 1,
                                   !.pc = "loop"]
                IN calls' = [calls EXCEPT ![c] =
                               IF getPeers(n) = <<>> THEN Finish(g) ELSE g]
     /\ UNCHANGED <<peers, nfaults, rejected, budget>>

\* handleDiagnostic from the test of `found` to its loop
HandleClaim(c) ==
  LET f == calls[c]
      n == f.node
  IN /\ f.pc = "check"
     /\ diagLock' = Unlock(n)
     /\ IF f.found
        THEN /\ calls' = [calls EXCEPT ![c].pc = "done",
                                       ![c].resp = [f.resp EXCEPT !.Data = DupData(n)]]
             /\ UNCHANGED diagMap
        ELSE /\ diagMap' = [diagMap EXCEPT ![n][f.pmes.DiagID] = Now(n)]
             /\ LET g == [f EXCEPT !.buf = Marshal(getDiagInfo(n)), !.snaps = 1,
                                   !.pc = "loop"]
                IN calls' = [calls EXCEPT ![c] =
                               IF getPeers(n) = <<>> THEN Finish(g) ELSE g]
     /\ UNCHANGED <<peers, nfaults, rejected, budget>>

\* what the transport can make of the reply bytes w
Replies(w) ==
  {[kind |-> "ok", wire |-> w]}
  \cup {[kind |-> "nil", wire |-> <<>>], [kind |-> "proto", wire |-> <<Garbage>>]}
  \cup { [kind |-> "corrupt", wire |-> SubSeq(w, 1, k) \o <<Garbage>>] :
           k \in { j \in 1..Len(w) : j = 1 \/ w[j] = RBrace } }
  \cup { [kind |-> "corrupt",
          wire |-> SubSeq(w, 1, k) \o <<Garbage>> \o SubSeq(w, k + 1, Len(w))] :
           k \in { j \in 1..Len(w) : j = 1 \/ w[j] = RBrace } }

\* the sender returns the reply of the peer's HandleMessage
RecvReply(c) ==
  LET f == calls[c]
  IN /\ f.pc = "wait"
     /\ calls[Append(c, f.i)].pc = "done"
     /\ \E r \in Replies(ProtoMarshal(calls[Append(c, f.i)].resp)) :
          /\ r.kind # "ok" => MayFault
          /\ nfaults' = IF r.kind = "ok" THEN nfaults ELSE nfaults + 1
          /\ LET u == ProtoUnmarshal(r.wire)
             IN calls' = [calls EXCEPT ![c] =
                  IF r.kind = "nil" THEN OnPeerError(f, "nil")
                  ELSE IF u.err # "nil" THEN OnPeerError(f, "proto")
                  ELSE OnPeerData(f, u.msg.Data)]
     /\ UNCHANGED <<peers, diagMap, diagLock, rejected, budget>>

\* the sender gives up waiting: a transport error, or the context is done
RpcError(c) ==
  LET f == calls[c]
  IN /\ f.pc = "wait"
     /\ f.expired \/ MayFault
     /\ calls' = [calls EXCEPT ![c] = OnPeerError(f, "timeout")]
     /\ nfaults' = IF f.expired THEN nfaults ELSE nfaults + 1
     /\ UNCHANGED <<peers, diagMap, diagLock, rejected, budget>>

\* the deadline of a frame's context passes
Expire(c) ==
  LET f == calls[c]
  IN /\ f.pc \in {"loop", "wait"}
     /\ ~f.expired
     /\ MayFault
     /\ calls' = [calls EXCEPT ![c].expired = TRUE]
     /\ nfaults' = nfaults + 1
     /\ UNCHANGED <<peers, diagMap, diagLock, rejected, budget>>

\* HandleMessage is handed a message without payload or without sender and
\* returns (nil, error) from its first checks
HandleMessage(n, mes) ==
  /\ MayReject
  /\ rejected' = [node |-> n, err |-> HandleMessage_err(mes), replied |-> FALSE,
                  at |-> Cardinality({ c \in Handles : calls[c].node = n })]
  /\ nfaults' = nfaults + 1
  /\ UNCHANGED <<peers, diagMap, diagLock, calls, budget>>

Next ==
  \/ \E n \in Node, r \in Id : GetDiagnostic(n, r)
  \/ \E n \in Node, mes \in Malformed : HandleMessage(n, mes)
  \/ \E c \in Calls : SendRequest(c)
  \/ \E c \in Calls : SendError(c)
  \/ \E c \in Calls : HandleLock(c)
  \/ \E c \in Calls : HandleClaim(c)
  \/ \E c \in Calls : RecvReply(c)
  \/ \E c \in Calls : RpcError(c)
  \/ \E c \in Calls : Expire(c)

Spec == Init /\ [][Next]_vars

\* a frame that can take a step takes one: goroutines are scheduled, and
\* every request handed to the sender comes back as a reply or an error
Step ==
  \E c \in Calls :
    \/ SendRequest(c) \/ SendError(c) \/ HandleLock(c) \/ HandleClaim(c)
    \/ RecvReply(c) \/ RpcError(c)

\* the runs the liveness check explores: one round less, one fault less
LiveInit ==
  /\ peers \in Graphs
  /\ diagMap = [n \in Node |-> [r \in Id |-> NoTime]]
  /\ diagLock = [n \in Node |-> NoCall]
  /\ calls = [c \in {} |-> 0]
  /\ nfaults = 0
  /\ rejected = NoReject
  /\ budget = [rounds |-> MaxRounds - 1, faults |-> MaxFaults - 1]

FairSpec == LiveInit /\ [][Next]_vars /\ WF_vars(Step)

(* ------------------------------ claims --------------------------------- *)
\* the handlers at node n that have done the check of id r under diagLock
Attempts(n, r) ==
  { c \in Handles : /\ calls[c].node = n
                    /\ calls[c].pmes.DiagID = r
                    /\ calls[c].pc # "lock" }
\* those of them that saw r not yet claimed
Fresh(n, r) == { c \in Attempts(n, r) : ~calls[c].found }
\* node n has started a round with id r itself
Originated(n, r) ==
  \E c \in Gets : calls[c].node = n /\ calls[c].pmes.DiagID = r

\* C1 (as amended): at every node and for every id, at most one handler sees
\* the id "not already claimed", every other one sees it "already claimed",
\* and exactly one sees it unclaimed unless the node has originated a round
\* with that id (GetDiagnostic records the id without a check).
C1_ClaimOnce ==
  \A n \in Node, r \in Id :
    /\ Cardinality(Fresh(n, r)) <= 1
    /\ (Attempts(n, r) # {} /\ ~Originated(n, r)) => Cardinality(Fresh(n, r)) = 1

\* C1 as stated: of the handlers' checks of one id at one node, exactly one
\* sees the id unclaimed.
C1_Original ==
  \A n \in Node, r \in Id :
    Attempts(n, r) # {} => Cardinality(Fresh(n, r)) = 1

\* two handlers of one id overlap at a node: the one that claimed the id is
\* still in its loop when the other one has seen the id claimed
C1_Witness ==
  \E n \in Node, r \in Id :
    \E c \in Fresh(n, r), d \in Attempts(n, r) :
      /\ calls[c].pc \in {"loop", "wait"}
      /\ calls[d].found
      /\ ~Originated(n, r)

\* the handlers at node n that took a snapshot and went on to fan out id r
FirstProcessings(n, r) ==
  { c \in Handles : /\ calls[c].node = n
                    /\ calls[c].pmes.DiagID = r
                    /\ calls[c].snaps > 0 }

RECURSIVE SumSent(_)
SumSent(S) ==
  IF S = {} THEN 0
  ELSE LET c == CHOOSE x \in S : TRUE
       IN calls[c].sent + SumSent(S \ {c})

\* requests sent in the round of the GetDiagnostic call R
SentIn(R) == SumSent({ c \in Calls : Root(c) = R })

RECURSIVE SumLen(_)
SumLen(S) ==
  IF S = {} THEN 0
  ELSE LET n == CHOOSE x \in S : TRUE
       IN Len(peers[n]) + SumLen(S \ {n})

TotalPeers == SumLen(Node)

\* C2: a node does the first processing of an id (snapshot and fan-out) at
\* most once, however many requests with the id it receives, and a round
\* sends at most as many requests as there are entries in all peer lists.
C2_FanOutOnce ==
  /\ \A n \in Node, r \in Id : Cardinality(FirstProcessings(n, r)) <= 1
  /\ \A R \in Gets : SentIn(R) <= TotalPeers

\* a finished round that sent a request along every peer link, in which a
\* node received the id more than once
C2_Witness ==
  \E R \in Gets :
    /\ calls[R].pc = "done"
    /\ SentIn(R) = TotalPeers
    /\ \E n \in Node : Cardinality(Attempts(n, calls[R].pmes.DiagID)) >= 2

AllDone == \A c \in Calls : calls[c].pc = "done"

\* C3: every call that has started returns, on every peer graph, cyclic ones
\* included, when a frame that can take a step takes one and every request
\* handed to the sender comes back as a reply or an error.
C3_Terminates == (~AllDone) ~> AllDone

\* d is a call made, directly or not, on behalf of c
Descends(d, c) == Len(c) < Len(d) /\ SubSeq(d, 1, Len(c)) = c

\* a handler that claimed a fresh id has returned after its request had come
\* back to its own node around a cycle of the peer graph
C3_Witness ==
  \E c \in Handles, d \in Handles :
    /\ Descends(d, c)
    /\ calls[d].node = calls[c].node
    /\ calls[d].found
    /\ calls[c].snaps > 0
    /\ calls[c].pc = "done"

\* C4: a handler that finds the id of its request in the ledger returns a
\* reply with an empty payload, has taken no snapshot and sent no request,
\* and leaves the ledger as it was.
C4_DupNoOp ==
  [][\A c \in Handles :
       (/\ calls[c].pc = "check"
        /\ diagMap[calls[c].node][calls[c].pmes.DiagID] # NoTime
        /\ calls'[c].pc # "check")
       => /\ calls'[c].pc = "done"
          /\ calls'[c].resp.Data = <<>>
          /\ calls'[c].snaps = 0
          /\ calls'[c].sent = 0
          /\ DOMAIN calls' = DOMAIN calls
          /\ diagMap' = diagMap]_vars

\* a handler has answered a request whose id was in the ledger
C4_Witness ==
  \E c \in Handles : calls[c].pc = "done" /\ calls[c].found

Range(s) == { s[j] : j \in 1..Len(s) }

\* the nodes that can be reached from the nodes of S along peer links
RECURSIVE Reachable(_)
Reachable(S) ==
  LET T == S \cup { m \in Node : \E k \in S : m \in Range(peers[k]) }
  IN IF T = S THEN S ELSE Reachable(T)

\* no other round carries the id of round R
UniqueId(R) ==
  \A Q \in Gets \ {R} : calls[Q].diagID # calls[R].diagID

\* C5 (as amended): a finished round without any transport fault, whose id
\* no other round uses, returns a snapshot of every node reachable from the
\* originator.
C5_GatherAll ==
  \A R \in Gets :
    (calls[R].pc = "done" /\ nfaults = 0 /\ UniqueId(R))
    => \A m \in Reachable({calls[R].node}) : getDiagInfo(m) \in Range(calls[R].out)

\* C5 as stated: every finished round without a transport fault returns a
\* snapshot of every node reachable from the originator.
C5_Original ==
  \A R \in Gets :
    (calls[R].pc = "done" /\ nfaults = 0)
    => \A m \in Reachable({calls[R].node}) : getDiagInfo(m) \in Range(calls[R].out)

\* a fault-free round has finished on a connected graph, next to a round
\* with another id
C5_Witness ==
  \E R \in Gets :
    /\ calls[R].pc = "done" /\ nfaults = 0 /\ UniqueId(R)
    /\ Gets # {R}
    /\ Reachable({calls[R].node}) = Node
    /\ Len(calls[R].out) = NumNodes

\* every peer of the caller of R has answered with exactly its own snapshot
OwnOnly(R) ==
  LET f == calls[R]
  IN /\ Len(f.rcv) = Len(peers[f.node])
     /\ \A j \in 1..Len(f.rcv) :
          /\ f.rcv[j].kind = "ok"
          /\ f.rcv[j].data = Marshal(getDiagInfo(peers[f.node][j]))

\* C6: when each of the N peers answers with exactly its own snapshot,
\* GetDiagnostic returns N+1 snapshots: its own, then those of the peers (for
\* N = 0 its own alone).
C6_OwnThenPeers ==
  \A R \in Gets :
    (calls[R].pc = "done" /\ OwnOnly(R))
    => calls[R].out = <<getDiagInfo(calls[R].node)>>
                      \o [j \in 1..Len(peers[calls[R].node]) |->
                            getDiagInfo(peers[calls[R].node][j])]

\* GetDiagnostic has returned at a node with two peers that answered with
\* their own snapshot each
C6_Witness ==
  \E R \in Gets :
    /\ calls[R].pc = "done" /\ OwnOnly(R)
    /\ Len(peers[calls[R].node]) >= 2
    /\ Len(calls[R].out) = Len(peers[calls[R].node]) + 1

\* every peer of the caller of R was asked, the j-th timed out, the others
\* answered
OneTimeout(R, j) ==
  LET f == calls[R]
  IN /\ Len(f.rcv) = Len(peers[f.node])
     /\ j \in 1..Len(f.rcv)
     /\ f.rcv[j].kind = "timeout"
     /\ \A k \in 1..Len(f.rcv) : k # j => f.rcv[k].kind = "ok"

\* the payload the caller of R got from its k-th peer is the one that peer's
\* handler returned
Intact(R, k) == calls[R].rcv[k].data = calls[Append(R, k)].resp.Data

\* C7 (as amended): when one of the N peers times out and each of the others
\* answers with exactly its own snapshot, GetDiagnostic returns without
\* error exactly N snapshots, its own first and those of the peers that
\* answered, wherever the peer that timed out stands in the peer list.
C7_OneTimeout ==
  \A R \in Gets :
    \A j \in 1..Len(calls[R].rcv) :
      LET f == calls[R]
      IN (/\ f.pc = "done"
          /\ OneTimeout(R, j)
          /\ \A k \in 1..Len(f.rcv) :
               k # j => f.rcv[k].data = Marshal(getDiagInfo(peers[f.node][k])))
         => /\ f.err = "nil"
            /\ Len(f.out) = Len(peers[f.node])
            /\ f.out[1] = getDiagInfo(f.node)
            /\ \A k \in 1..Len(f.rcv) :
                 k # j => getDiagInfo(peers[f.node][k]) \in Range(f.out)

\* C7 as stated: when one of the N peers times out and the others answer
\* (their payloads arriving as sent), GetDiagnostic returns without error fewer than N+1 snapshots, among them
\* its own and that of every peer that answered.
C7_Original ==
  \A R \in Gets :
    \A j \in 1..Len(calls[R].rcv) :
      LET f == calls[R]
      IN (/\ f.pc = "done"
          /\ OneTimeout(R, j)
          /\ \A k \in 1..Len(f.rcv) : k # j => Intact(R, k))
         => /\ f.err = "nil"
            /\ Len(f.out) < Len(peers[f.node]) + 1
            /\ getDiagInfo(f.node) \in Range(f.out)
            /\ \A k \in 1..Len(f.rcv) :
                 k # j => getDiagInfo(peers[f.node][k]) \in Range(f.out)

\* the first of two peers timed out, the second answered with its snapshot
C7_Witness ==
  \E R \in Gets :
    LET f == calls[R]
    IN /\ f.pc = "done"
       /\ Len(peers[f.node]) >= 2
       /\ OneTimeout(R, 1)
       /\ \A k \in 2..Len(f.rcv) : f.rcv[k].data = Marshal(getDiagInfo(peers[f.node][k]))

\* C8: whatever the outcomes of the requests to the peers, GetDiagnostic
\* has asked every peer when it returns, and it returns a nil error and a
\* sequence that is not empty.
C8_NeverFails ==
  \A R \in Gets :
    calls[R].pc = "done"
    => /\ calls[R].err = "nil"
       /\ Len(calls[R].out) >= 1
       /\ Len(calls[R].rcv) = Len(peers[calls[R].node])

\* GetDiagnostic has returned after the requests to two peers failed in two
\* different ways
C8_Witness ==
  \E R \in Gets :
    LET f == calls[R]
    IN /\ f.pc = "done"
       /\ Len(f.rcv) >= 2
       /\ f.rcv[1].kind # "ok" /\ f.rcv[2].kind # "ok"
       /\ f.rcv[1].kind # f.rcv[2].kind

HasRepeat(out) ==
  \E j, k \in 1..Len(out) : j < k /\ out[j].ID = out[k].ID

Via(a, m) == m = a \/ m \in Range(peers[a])

\* two peers of n both lead to one node m: the graph offers two paths to m
Redundant(n) ==
  \E m \in Node \ {n} : \E a, b \in Range(peers[n]) :
    a # b /\ Via(a, m) /\ Via(b, m)

\* C9 (as amended): the result of a round never contains two snapshots with
\* the same NodeID, also when the peer graph offers several paths to a node,
\* as long as the payloads that arrive are those the responders built or a
\* prefix of them.
C9_NoRepeat ==
  \A R \in Gets : ~HasRepeat(calls[R].out)

\* C9 as stated, for a round without faults: on a peer graph with two paths
\* to a node the result contains two snapshots with the same NodeID.
C9_Original ==
  \A R \in Gets :
    (calls[R].pc = "done" /\ nfaults = 0 /\ UniqueId(R) /\ Redundant(calls[R].node))
    => HasRepeat(calls[R].out)

\* a round has finished on a graph with two paths to a node, and a node
\* has received the id of the round twice
C9_Witness ==
  \E R \in Gets :
    /\ calls[R].pc = "done" /\ nfaults = 0
    /\ Redundant(calls[R].node)
    /\ Len(calls[R].out) = NumNodes
    /\ \E n \in Node : Cardinality(Attempts(n, calls[R].diagID)) >= 2

\* C10: the request a handler received, and so the request it relays, and
\* the reply it returns, full or empty, carry the id the originator of the
\* round generated.
C10_SameId ==
  \A c \in Handles :
    /\ calls[c].pmes.DiagID = calls[Root(c)].diagID
    /\ calls[c].resp.DiagID = calls[c].pmes.DiagID
    /\ calls[Parent(c)].pmes.DiagID = calls[c].pmes.DiagID

\* in one round a relayed request has been answered in full and another
\* one as a duplicate
C10_Witness ==
  \E c, d \in Handles :
    /\ Root(c) = Root(d)
    /\ Len(c) >= 3
    /\ calls[c].pc = "done" /\ calls[c].snaps > 0 /\ calls[c].resp.Data # <<>>
    /\ calls[d].pc = "done" /\ calls[d].found /\ calls[d].resp.Data = <<>>

(* C11: an inbound message without payload or without sender is rejected   *)
(* with an error and without a response; the rejection leaves the ledger,  *)
(* the mutex and every frame as they were (no snapshot, no request), and   *)
(* every request the node handles, before or after, is answered as usual:  *)
(* a first request with the node's snapshot, a duplicate with nothing.     *)
Answered(c) ==
  LET f == calls[c]
  IN f.pc = "done" =>
       IF f.found
       THEN f.resp.Data = <<>>
       ELSE /\ Found(f.node, f.pmes.DiagID)
            /\ Len(f.resp.Data) >= Len(Marshal(getDiagInfo(f.node)))
            /\ SubSeq(f.resp.Data, 1, Len(Marshal(getDiagInfo(f.node))))
                 = Marshal(getDiagInfo(f.node))

C11_RejectMalformed ==
  /\ [](rejected # NoReject => rejected.err # "nil" /\ ~rejected.replied)
  /\ [][(\E n \in Node, mes \in Malformed : HandleMessage(n, mes))
          => UNCHANGED <<peers, diagMap, diagLock, calls>>]_vars
  /\ [](\A c \in Handles : Answered(c))

\* a node rejected a message before it had handled any request, and has
\* since answered a first request in full
C11_Witness ==
  /\ rejected.node \in Node
  /\ rejected.at = 0
  /\ \E c \in Handles :
       /\ calls[c].node = rejected.node
       /\ calls[c].pc = "done"
       /\ ~calls[c].found
       /\ calls[c].resp.Data # <<>>

(* C12: the id of a round is in the originator's ledger from the start of  *)
(* the round, before any request of the round is sent; a request with that *)
(* id that is looked up at the originator once the round has started is    *)
(* found there, and a found request ends with an empty payload, without a  *)
(* snapshot and without a request sent.                                    *)
OwnRound(c) ==
  \E R \in Gets : /\ calls[R].node = calls[c].node
                  /\ calls[R].diagID = calls[c].pmes.DiagID

C12_OriginatorClaims ==
  /\ [](\A R \in Gets : Found(calls[R].node, calls[R].diagID))
  /\ [][\A c \in Handles :
          (calls[c].pc = "lock" /\ calls'[c].pc = "check" /\ OwnRound(c))
            => calls'[c].found]_vars
  /\ [](\A c \in Handles :
          (calls[c].found /\ calls[c].pc = "done")
            => calls[c].resp.Data = <<>> /\ calls[c].snaps = 0 /\ calls[c].sent = 0)

\* the flood of a round has come back to its originator and was answered
C12_Witness ==
  \E R \in Gets, c \in Handles :
    /\ Root(c) = R
    /\ calls[c].node = calls[R].node
    /\ calls[c].pmes.DiagID = calls[R].diagID
    /\ calls[c].pc = "done"
    /\ calls[c].found
    /\ calls[c].resp.Data = <<>>

(* C13: the ids in a node's ledger only grow: no step of GetDiagnostic,    *)
(* handleDiagnostic or HandleMessage takes an id out of a ledger.          *)
C13_LedgerGrows ==
  [][\A n \in Node, r \in Id : Found(n, r) => Found(n, r)']_vars

\* a ledger that held one id has taken a second one in a request
C13_Witness ==
  \E n \in Node :
    /\ \A r \in Id : Found(n, r)
    /\ \E c \in Handles : calls[c].node = n /\ ~calls[c].found /\ calls[c].snaps = 1
    /\ \E r \in Id : diagMap[n][r] > 1

(* C14: the result of GetDiagnostic begins with the originator's own       *)
(* snapshot, followed by the snapshots decoded from the peers' payloads in *)
(* the order the replies were obtained; a non-empty payload built by       *)
(* handleDiagnostic is the handler's own snapshot followed by the payloads *)
(* of its peers in the order they were obtained.                           *)
RECURSIVE Payloads(_)
Payloads(rcv) ==
  IF rcv = <<>> THEN <<>> ELSE rcv[1].data \o Payloads(Tail(rcv))

RECURSIVE Decoded(_)
Decoded(rcv) ==
  IF rcv = <<>> THEN <<>> ELSE DecodeAll(rcv[1].data) \o Decoded(Tail(rcv))

C14_OwnFirst ==
  /\ \A R \in Gets :
       /\ calls[R].out # <<>>
       /\ calls[R].out[1] = getDiagInfo(calls[R].node)
       /\ calls[R].out = <<getDiagInfo(calls[R].node)>> \o Decoded(calls[R].rcv)
  /\ \A c \in Handles :
       (calls[c].pc = "done" /\ calls[c].resp.Data # <<>>)
         => /\ Decode(calls[c].resp.Data).err = "nil"
            /\ Decode(calls[c].resp.Data).di = getDiagInfo(calls[c].node)
            /\ calls[c].resp.Data
                 = Marshal(getDiagInfo(calls[c].node)) \o Payloads(calls[c].rcv)

\* a handler has answered with its own snapshot and a peer's payload after
\* it, and the round has returned three snapshots
C14_Witness ==
  \E c \in Handles :
    /\ calls[c].pc = "done"
    /\ Payloads(calls[c].rcv) # <<>>
    /\ calls[c].resp.Data # Marshal(getDiagInfo(calls[c].node))
    /\ calls[Root(c)].pc = "done"
    /\ Len(calls[Root(c)].out) >= 3

(* C15: the requests of one GetDiagnostic call share one deadline: once it *)
(* has passed it stays passed for the rest of the call, every peer the     *)
(* loop then comes to is skipped with a timeout error, without a request   *)
(* delivered and without a snapshot added, and the call keeps every        *)
(* snapshot it has collected and returns without an error.                 *)
IsPrefix(s, t) == Len(s) <= Len(t) /\ s = SubSeq(t, 1, Len(s))

C15_SharedDeadline ==
  /\ [][\A R \in Gets :
          /\ calls[R].expired => calls'[R].expired
          /\ IsPrefix(calls[R].out, calls'[R].out)
          /\ (calls[R].expired /\ calls[R].pc = "loop" /\ calls'[R] # calls[R])
               => /\ calls'[R].rcv = Append(calls[R].rcv, [kind |-> "timeout", data |-> <<>>])
                  /\ calls'[R].out = calls[R].out
                  /\ calls'[R].i = calls[R].i + 1
                  /\ Append(R, calls[R].i) \notin DOMAIN calls']_vars
  /\ [](\A R \in Gets : calls[R].pc = "done" => calls[R].err = "nil" /\ calls[R].out # <<>>)

\* the deadline passed after the first peer had answered: the second peer
\* was skipped and the call returned what it had
C15_Witness ==
  \E R \in Gets :
    /\ calls[R].pc = "done"
    /\ calls[R].expired
    /\ Len(calls[R].rcv) = 2
    /\ calls[R].rcv[1].kind = "ok"
    /\ calls[R].rcv[2].kind = "timeout"
    /\ Append(R, 2) \notin Calls
    /\ Len(calls[R].out) >= 2

(* C16: the deadline of the originator does not reach the handlers: when   *)
(* it passes no handler frame changes, and whatever the state of the       *)
(* originator's call, returned or not, a handler in its loop whose own     *)
(* deadline has not passed can send its next request and a handler that    *)
(* has looked an id up can go on to claim it.                              *)
C16_FanOutGoesOn ==
  /\ [][\A R \in Gets : (~calls[R].expired /\ calls'[R].expired)
          => \A c \in Handles : calls'[c] = calls[c]]_vars
  /\ [](\A c \in Handles :
          /\ (calls[c].pc = "loop" /\ ~calls[c].expired)
               => ENABLED SendRequest(c)
          /\ calls[c].pc = "check" => ENABLED HandleClaim(c))

\* the originator's deadline has passed and its call has returned, while a
\* handler of the round has yet to send its first request and a peer of
\* that handler has yet to claim the id
C16_Witness ==
  \E c \in Handles :
    /\ calls[Root(c)].pc = "done"
    /\ calls[Root(c)].expired
    /\ calls[c].pc = "loop"
    /\ ~calls[c].expired
    /\ ~calls[c].found
    /\ calls[c].sent = 0
    /\ \E k \in 1..Len(getPeers(calls[c].node)) :
         ~Found(getPeers(calls[c].node)[k], calls[c].pmes.DiagID)

(* C17: a call of GetDiagnostic or handleDiagnostic has at most one        *)
(* request outstanding: every request it made to an earlier peer has       *)
(* returned a reply or an error before the next one is made, and the loop  *)
(* ends only when a request has been attempted for every peer of the list, *)
(* whatever errors the earlier peers gave.                                 *)
Outstanding(c) ==
  { k \in 1..Len(getPeers(calls[c].node)) :
      Append(c, k) \in Calls /\ k > Len(calls[c].rcv) }

C17_OneOutstanding ==
  \A c \in Calls :
    LET f == calls[c]
    IN /\ Cardinality(Outstanding(c)) <= 1
       /\ Outstanding(c) = IF f.pc = "wait" THEN {f.i} ELSE {}
       /\ Len(f.rcv) = f.i - 1
       /\ f.sent = Len(f.rcv) + Cardinality(Outstanding(c))
       /\ \A k \in 1..Len(getPeers(f.node)) : Append(c, k) \in Calls => k <= f.i
       /\ (f.pc = "done" /\ ~f.found) => Len(f.rcv) = Len(getPeers(f.node))

\* the first peer of a call failed or was given up on, the second peer was
\* asked after that and has answered
C17_Witness ==
  \E c \in Calls :
    /\ calls[c].pc = "done"
    /\ Len(calls[c].rcv) >= 2
    /\ calls[c].rcv[1].kind \in {"timeout", "transport", "nil", "proto"}
    /\ calls[c].rcv[2].kind = "ok"
    /\ Append(c, 2) \in Calls

(* C18: when the payload a GetDiagnostic call receives from a peer is the  *)
(* encodings of k snapshots followed by a fragment that is no JSON and by  *)
(* anything after it, the call appends exactly those k snapshots, in       *)
(* order, to the snapshots it already has, and goes on to the next peer    *)
(* (or returns without an error after the last one).                       *)
RECURSIVE MarshalAll(_)
MarshalAll(S) ==
  IF S = <<>> THEN <<>> ELSE Marshal(S[1]) \o MarshalAll(Tail(S))

\* the sequences of up to NumNodes snapshots of nodes of the swarm
Snapshots ==
  UNION { [1..k -> { getDiagInfo(n) : n \in Node }] : k \in 0..NumNodes }

\* payload d is the encodings of S, then a malformed fragment, then a rest
ValidThenMalformed(d, S) ==
  /\ Len(d) > Len(MarshalAll(S))
  /\ SubSeq(d, 1, Len(MarshalAll(S))) = MarshalAll(S)
  /\ d[Len(MarshalAll(S)) + 1] = Garbage

C18_ValidPrefix ==
  [][\A R \in Gets :
       Len(calls'[R].rcv) > Len(calls[R].rcv)
         => LET d == calls'[R].rcv[Len(calls'[R].rcv)].data
            IN \A S \in Snapshots :
                 ValidThenMalformed(d, S)
                   => /\ calls'[R].out = calls[R].out \o S
                      /\ calls'[R].i = calls[R].i + 1
                      /\ calls'[R].err = "nil"
                      /\ calls'[R].pc = IF calls'[R].i > Len(getPeers(calls[R].node))
                                        THEN "done" ELSE "loop"]_vars

\* a call has taken the one snapshot in front of the fragment and left the
\* one behind it, and has then heard its second peer
C18_Witness ==
  \E R \in Gets, S \in Snapshots :
    /\ Len(calls[R].rcv) = 2
    /\ Len(S) = 1
    /\ ValidThenMalformed(calls[R].rcv[1].data, S)
    /\ Len(calls[R].rcv[1].data) > Len(MarshalAll(S)) + 1
    /\ calls[R].out = <<getDiagInfo(calls[R].node)>> \o S
    /\ calls[R].pc = "done"

(* C19: the time a ledger holds for an id is the time the node first saw   *)
(* the id: no step changes the time of an entry that exists, also not the  *)
(* start of a round whose new id is already in the ledger.                 *)
C19_FirstSeen ==
  [][\A n \in Node, r \in Id :
       Found(n, r) => diagMap'[n][r] = diagMap[n][r]]_vars

\* what holds of the code: a step that changes the time of an entry is the
\* start of a GetDiagnostic call at that node with that id
C19_OnlyGetOverwrites ==
  [][\A n \in Node, r \in Id :
       (Found(n, r) /\ diagMap'[n][r] # diagMap[n][r])
         => \E R \in (DOMAIN calls') \ Calls :
              /\ calls'[R].kind = "get"
              /\ calls'[R].node = n
              /\ calls'[R].diagID = r]_vars

\* a node that had claimed an id for a request has started a round of its
\* own with the same id, and the entry holds the later time
C19_Witness ==
  \E R \in Gets, c \in Handles :
    /\ calls[c].node = calls[R].node
    /\ calls[c].pmes.DiagID = calls[R].diagID
    /\ Root(c) # R
    /\ ~calls[c].found
    /\ calls[c].snaps = 1
    /\ diagMap[calls[R].node][calls[R].diagID] > 1
    /\ \A r \in Id : r # calls[R].diagID => ~Found(calls[R].node, r)

(* C20: rounds with different ids do not interfere at a node: a step       *)
(* changes at most one ledger entry, that of the id of the frame that      *)
(* steps; a lookup finds an id only if the node has started a round with   *)
(* that id or claimed that id for an earlier request, whatever other ids   *)
(* its ledger holds; a request that was not found is answered with the     *)
(* node's own snapshot first; and all requests and replies below a frame   *)
(* carry the frame's id.                                                   *)
Claimed(n, r, c) ==
  \/ \E R \in Gets : calls[R].node = n /\ calls[R].diagID = r
  \/ \E d \in Handles \ {c} :
       /\ calls[d].node = n
       /\ calls[d].diagID = r
       /\ ~calls[d].found
       /\ calls[d].pc \in {"loop", "wait", "done"}

C20_NoInterference ==
  /\ [][\A n \in Node, r \in Id :
          diagMap'[n][r] # diagMap[n][r]
            => /\ \A m \in Node, q \in Id :
                    diagMap'[m][q] # diagMap[m][q] => m = n /\ q = r
               /\ \E c \in DOMAIN calls' :
                    /\ calls'[c].node = n
                    /\ calls'[c].diagID = r
                    /\ c \in Calls => calls'[c] # calls[c]]_vars
  /\ [][\A c \in Handles :
          (calls[c].pc = "lock" /\ calls'[c].pc = "check")
            => (calls'[c].found <=> Claimed(calls[c].node, calls[c].diagID, c))]_vars
  /\ [](\A c \in Handles :
          /\ calls[c].resp.DiagID = calls[c].diagID
          /\ calls[c].pmes.DiagID = calls[c].diagID
          /\ calls[c].diagID = calls[Parent(c)].diagID
          /\ (calls[c].pc = "done" /\ ~calls[c].found)
               => /\ calls[c].resp.Data # <<>>
                  /\ Decode(calls[c].resp.Data).err = "nil"
                  /\ Decode(calls[c].resp.Data).di = getDiagInfo(calls[c].node))

\* a node has answered the first request for one id in full while it was
\* still gathering for another id
C20_Witness ==
  \E c \in Handles, d \in Handles :
    /\ calls[c].node = calls[d].node
    /\ calls[c].diagID # calls[d].diagID
    /\ ~calls[c].found
    /\ calls[c].pc \in {"loop", "wait"}
    /\ ~calls[d].found
    /\ calls[d].pc = "done"
    /\ calls[d].resp.Data # <<>>
    /\ diagMap[calls[c].node][calls[c].diagID] < diagMap[calls[d].node][calls[d].diagID]

\* C20 as stated: the request that is the first with its id to be looked up
\* at a node is answered with a non-empty payload
C20_Original ==
  \A c \in Handles :
    (/\ calls[c].pc = "done"
     /\ \A d \in Handles \ {c} :
          (calls[d].node = calls[c].node /\ calls[d].diagID = calls[c].diagID)
            => calls[d].pc = "lock")
      => calls[c].resp.Data # <<>>

====
